---- MODULE Spec2Model ----
(***************************************************************************)
(* A model of github.com/tidwall/box (src/box.go): the two-word boxed      *)
(* Value, its constructors, its accessors and predicates, and the type     *)
(* descriptor registry (ptable, plocker).                                  *)
(*                                                                         *)
(* Target: a 64-bit little-endian Go build.  A 64-bit word is a tuple of   *)
(* four 16-bit limbs, least significant first, because the lengths and     *)
(* bit patterns the code packs (2^31, 2^56, 2^63) do not fit TLC's         *)
(* integers.                                                               *)
(***************************************************************************)
EXTENDS Integers, Sequences, FiniteSets

(***************************************************************************)
(* 64-bit words.                                                           *)
(***************************************************************************)
Limb == 2^16

W(n) == <<n, 0, 0, 0>>

Zero == W(0)

Word4(a, b, c, d) == <<a, b, c, d>>

IsWord(w) == /\ DOMAIN w = 1..4
             /\ \A i \in 1..4 : w[i] \in 0..(Limb - 1)

\* x << j*16, truncated to 64 bits
LimbShl(w, j) == [i \in 1..4 |-> IF i - j >= 1 THEN w[i - j] ELSE 0]

\* x >> j*16
LimbShr(w, j) == [i \in 1..4 |-> IF i + j <= 4 THEN w[i + j] ELSE 0]

\* x << b for 0 <= b < 16, truncated to 64 bits
BitShl(w, b) == [i \in 1..4 |->
                   ((w[i] * 2^b) % Limb)
                   + (IF i > 1 THEN w[i - 1] \div 2^(16 - b) ELSE 0)]

\* x >> b for 0 <= b < 16
BitShr(w, b) == [i \in 1..4 |->
                   (w[i] \div 2^b)
                   + (IF i < 4 THEN (w[i + 1] % 2^b) * 2^(16 - b) ELSE 0)]

\* Go's x << k on uint64
Shl(w, k) == BitShl(LimbShl(w, k \div 16), k % 16)

\* Go's x >> k on uint64
Shr(w, k) == BitShr(LimbShr(w, k \div 16), k % 16)

RECURSIVE OrN(_, _)
OrN(x, y) == IF x = 0 THEN y
             ELSE IF y = 0 THEN x
             ELSE 2 * OrN(x \div 2, y \div 2)
                  + (IF x % 2 = 1 \/ y % 2 = 1 THEN 1 ELSE 0)

RECURSIVE AndN(_, _)
AndN(x, y) == IF x = 0 \/ y = 0 THEN 0
              ELSE 2 * AndN(x \div 2, y \div 2)
                   + (IF x % 2 = 1 /\ y % 2 = 1 THEN 1 ELSE 0)

\* Go's x | y on uint64
Or(a, b) == [i \in 1..4 |-> OrN(a[i], b[i])]

\* Go's x & y on uint64
And(a, b) == [i \in 1..4 |-> AndN(a[i], b[i])]

\* Go's x < y on uint64
Lt(a, b) == \/ a[4] < b[4]
            \/ a[4] = b[4] /\ a[3] < b[3]
            \/ a[4] = b[4] /\ a[3] = b[3] /\ a[2] < b[2]
            \/ a[4] = b[4] /\ a[3] = b[3] /\ a[2] = b[2] /\ a[1] < b[1]

\* Go's x > y on uint64
Gt(a, b) == Lt(b, a)

\* Go's x - y on uint64 (wraps modulo 2^64)
Sub(a, b) ==
    LET d1 == a[1] - b[1]
        c1 == IF d1 < 0 THEN 1 ELSE 0
        d2 == a[2] - b[2] - c1
        c2 == IF d2 < 0 THEN 1 ELSE 0
        d3 == a[3] - b[3] - c2
        c3 == IF d3 < 0 THEN 1 ELSE 0
        d4 == a[4] - b[4] - c3
    IN  <<d1 % Limb, d2 % Limb, d3 % Limb, d4 % Limb>>

\* Go's x + y on uint64 (wraps modulo 2^64)
Add(a, b) ==
    LET s1 == a[1] + b[1]
        s2 == a[2] + b[2] + (s1 \div Limb)
        s3 == a[3] + b[3] + (s2 \div Limb)
        s4 == a[4] + b[4] + (s3 \div Limb)
    IN  <<s1 % Limb, s2 % Limb, s3 % Limb, s4 % Limb>>

\* the low 8 bits of a word, as a number
LowByte(w) == w[1] % 256

\* bit 63
TopBit(w) == w[4] \div 2^15

\* a word whose value fits a TLC integer
IsSmall(w) == w[2] = 0 /\ w[3] = 0 /\ w[4] = 0 /\ w[1] < 2^8

(***************************************************************************)
(* Go's scalar types and the conversions between them.                     *)
(*   uint64   a word                                                       *)
(*   int64    [neg, mag]: sign and magnitude, -2^63 <= x < 2^63            *)
(*   float64  [sign, exp, frac]: the IEEE-754 fields, frac 52 bits wide    *)
(*   bool     a BOOLEAN                                                    *)
(***************************************************************************)
AllOnes == Word4(Limb - 1, Limb - 1, Limb - 1, Limb - 1)

MinInt64Bits == Word4(0, 0, 0, 2^15)

MaxInt64Bits == Word4(Limb - 1, Limb - 1, Limb - 1, 2^15 - 1)

I64(neg, mag) == [neg |-> neg, mag |-> mag]

I64Zero == I64(FALSE, Zero)

\* Go's uint64(x) for x int64: the two's-complement bit pattern
Uint64OfInt64(x) == IF x.neg THEN Sub(Zero, x.mag) ELSE x.mag

\* Go's int64(w) for w uint64: the pattern read as two's complement
Int64OfUint64(w) == IF TopBit(w) = 1 THEN I64(TRUE, Sub(Zero, w))
                    ELSE I64(FALSE, w)

F64(sign, exp, frac) == [sign |-> sign, exp |-> exp, frac |-> frac]

\* math.Float64bits
Float64bits(f) ==
    Word4(f.frac[1], f.frac[2], f.frac[3],
          f.sign * 2^15 + f.exp * 16 + f.frac[4])

\* math.Float64frombits
Float64frombits(w) ==
    F64(w[4] \div 2^15, (w[4] \div 16) % 2^11,
        Word4(w[1], w[2], w[3], w[4] % 16))

IsNaN(f) == f.exp = 2^11 - 1 /\ f.frac # Zero

IsInf(f) == f.exp = 2^11 - 1 /\ f.frac = Zero

IsZeroF(f) == f.exp = 0 /\ f.frac = Zero

\* Go's x > 0 and x < 0 on float64 (both false for NaN and for either zero)
FGtZero(f) == ~IsNaN(f) /\ ~IsZeroF(f) /\ f.sign = 0

\* a slip: the sign bit alone, which -0.0 and a negative NaN have too
FLtZero_SignBit(f) == f.sign = 1

FLtZero(f) == ~IsNaN(f) /\ ~IsZeroF(f) /\ f.sign = 1

\* math.NaN(): 0x7FF8000000000001
NaN == Float64frombits(Word4(1, 0, 0, 2^15 - 8))

FPosZero == F64(0, 0, Zero)

\* the index of the highest set bit of a non-zero word
RECURSIVE HighBitN(_)
HighBitN(n) == IF n <= 1 THEN 0 ELSE 1 + HighBitN(n \div 2)

HighBit(w) == IF w[4] # 0 THEN 48 + HighBitN(w[4])
              ELSE IF w[3] # 0 THEN 32 + HighBitN(w[3])
              ELSE IF w[2] # 0 THEN 16 + HighBitN(w[2])
              ELSE HighBitN(w[1])

\* Go's float64(w) for w uint64: round to nearest, ties to even
Float64OfMag(sign, w) ==
    IF w = Zero THEN F64(sign, 0, Zero)
    ELSE LET e == HighBit(w)
         IN  IF e <= 52
             THEN LET m == Shl(w, 52 - e)
                  IN  F64(sign, 1023 + e, Word4(m[1], m[2], m[3], m[4] % 16))
             ELSE LET s    == e - 52
                      q    == Shr(w, s)
                      r    == Sub(w, Shl(q, s))
                      half == Shl(W(1), s - 1)
                      up   == Gt(r, half) \/ (r = half /\ q[1] % 2 = 1)
                      m    == IF up THEN Add(q, W(1)) ELSE q
                  IN  IF m[4] >= 32
                      THEN F64(sign, 1023 + e + 1, Zero)
                      ELSE F64(sign, 1023 + e,
                               Word4(m[1], m[2], m[3], m[4] % 16))

Float64OfUint64(w) == Float64OfMag(0, w)

\* Go's float64(x) for x int64
Float64OfInt64(x) == Float64OfMag(IF x.neg THEN 1 ELSE 0, x.mag)

\* the magnitude of a finite float truncated toward zero, when below 2^64
TruncMag(f) ==
    LET e == f.exp - 1023
        m == Word4(f.frac[1], f.frac[2], f.frac[3], 16 + f.frac[4])
    IN  IF f.exp = 0 \/ e < 0 THEN Zero
        ELSE IF e <= 52 THEN Shr(m, 52 - e)
        ELSE Shl(m, e - 52)

\* Go's int64(f): truncation toward zero; a NaN, an infinity or a value out
\* of range converts to an implementation-specific value, u
Int64OfFloat64(f, u) ==
    IF IsNaN(f) \/ IsInf(f) THEN u
    ELSE IF f.exp - 1023 >= 63
         THEN (IF f.sign = 1 /\ f.exp - 1023 = 63 /\ f.frac = Zero
               THEN I64(TRUE, MinInt64Bits) ELSE u)
         ELSE LET m == TruncMag(f)
              IN  I64(f.sign = 1 /\ m # Zero, m)

\* Go's uint64(f): as above; a negative value is out of range too
Uint64OfFloat64(f, u) ==
    IF IsNaN(f) \/ IsInf(f) \/ f.exp - 1023 >= 64 THEN Uint64OfInt64(u)
    ELSE LET m == TruncMag(f)
         IN  IF f.sign = 1 /\ m # Zero THEN Uint64OfInt64(u) ELSE m

(***************************************************************************)
(* Text.  The bytes of a Go string or []byte are a record [len, head]:     *)
(* for a length that fits (IsSmall) head is the bytes themselves, one      *)
(* character each; for the oversized lengths the inline bounds are about,  *)
(* head is the one byte value the whole buffer is filled with.             *)
(***************************************************************************)
T(seq) == [len |-> W(Len(seq)), head |-> seq]

EmptyText == T(<<>>)

\* the text is held byte by byte
Explicit(t) == IsSmall(t.len) /\ Len(t.head) = t.len[1]

DigitChars == <<"0", "1", "2", "3", "4", "5", "6", "7", "8", "9">>

IsDigit(c) == \E d \in 1..10 : DigitChars[d] = c

DigitVal(c) == (CHOOSE d \in 1..10 : DigitChars[d] = c) - 1

Tail0(seq) == SubSeq(seq, 2, Len(seq))

\* the value of a sequence of decimal digits
RECURSIVE DecVal(_, _)
DecVal(seq, acc) == IF seq = <<>> THEN acc
                    ELSE DecVal(Tail0(seq), 10 * acc + DigitVal(seq[1]))

AllDigits(seq) == seq # <<>> /\ \A i \in 1..Len(seq) : IsDigit(seq[i])

Parsed(v) == [ok |-> TRUE, v |-> v]

\* err != nil: the callers read no value
ParseErr == [ok |-> FALSE]

\* strconv.ParseUint(s, 10, 64): digits only, no sign.  The texts of the
\* model are short, so the range error of a value over 2^64-1 never arises.
ParseUint(t) ==
    IF Explicit(t) /\ AllDigits(t.head)
    THEN Parsed(W(DecVal(t.head, 0))) ELSE ParseErr

\* strconv.ParseInt(s, 10, 64): an optional sign, then digits
ParseInt(t) ==
    IF ~Explicit(t) \/ t.head = <<>> THEN ParseErr
    ELSE LET signed == t.head[1] \in {"+", "-"}
             digits == IF signed THEN Tail0(t.head) ELSE t.head
         IN  IF AllDigits(digits)
             THEN LET n == DecVal(digits, 0)
                  IN  Parsed(I64(t.head[1] = "-" /\ n # 0, W(n)))
             ELSE ParseErr

\* strconv.ParseBool
ParseBool(t) ==
    IF ~Explicit(t) THEN ParseErr
    ELSE IF t.head \in {<<"1">>, <<"t">>, <<"T">>, <<"T", "R", "U", "E">>,
                        <<"t", "r", "u", "e">>, <<"T", "r", "u", "e">>}
         THEN Parsed(TRUE)
    ELSE IF t.head \in {<<"0">>, <<"f">>, <<"F">>, <<"F", "A", "L", "S", "E">>,
                        <<"f", "a", "l", "s", "e">>, <<"F", "a", "l", "s", "e">>}
         THEN Parsed(FALSE)
    ELSE ParseErr

\* strconv.ParseFloat(s, 64) on the texts of the model: an optional sign,
\* then decimal digits ("-0" is negative zero).  The model's texts hold no
\* '.', exponent, hexadecimal prefix, '_', "inf" or "nan", the other forms
\* ParseFloat accepts; every other text is a syntax error.
ParseFloat(t) ==
    IF ~Explicit(t) \/ t.head = <<>> THEN ParseErr
    ELSE LET signed == t.head[1] \in {"+", "-"}
             digits == IF signed THEN Tail0(t.head) ELSE t.head
         IN  IF AllDigits(digits)
             THEN Parsed(Float64OfMag(IF t.head[1] = "-" THEN 1 ELSE 0,
                                      W(DecVal(digits, 0))))
             ELSE ParseErr

\* w divided by ten: <<quotient, remainder>>
DivMod10(w) ==
    LET c4 == w[4]
        c3 == (c4 % 10) * Limb + w[3]
        c2 == (c3 % 10) * Limb + w[2]
        c1 == (c2 % 10) * Limb + w[1]
    IN  <<Word4(c1 \div 10, c2 \div 10, c3 \div 10, c4 \div 10), c1 % 10>>

RECURSIVE Digits(_)
Digits(w) == LET qr == DivMod10(w)
             IN  IF qr[1] = Zero THEN <<DigitChars[qr[2] + 1]>>
                 ELSE Append(Digits(qr[1]), DigitChars[qr[2] + 1])

\* strconv.FormatUint(x, 10)
FormatUint(w) == T(Digits(w))

\* strconv.FormatInt(x, 10)
FormatInt(x) == IF x.neg THEN T(<<"-">> \o Digits(x.mag)) ELSE T(Digits(x.mag))

\* strconv.FormatBool
FormatBool(b) == IF b THEN T(<<"t", "r", "u", "e">>)
                 ELSE T(<<"f", "a", "l", "s", "e">>)

\* the float is a whole number below 2^53
IsWholeF(f) == /\ f.exp - 1023 \in 0..52
               /\ Float64OfMag(f.sign, TruncMag(f)) = f

\* strconv.FormatFloat(f, 'f', -1, 64): the shortest decimal that reads back
\* as f.  Given here for NaN, the infinities, the zeros and whole numbers;
\* the digits of any other float are left uninterpreted ("#" and the bits).
FormatFloat(f) ==
    IF IsNaN(f) THEN T(<<"N", "a", "N">>)
    ELSE IF IsInf(f)
         THEN T(<<(IF f.sign = 1 THEN "-" ELSE "+"), "I", "n", "f">>)
    ELSE IF IsZeroF(f) THEN T(IF f.sign = 1 THEN <<"-", "0">> ELSE <<"0">>)
    ELSE IF IsWholeF(f)
         THEN T((IF f.sign = 1 THEN <<"-">> ELSE <<>>) \o Digits(TruncMag(f)))
    ELSE T(<<"#">> \o Digits(Float64bits(f)))

(***************************************************************************)
(* Pointers.  A pointer is a record naming what it points to:              *)
(*   NIL                the nil pointer                                    *)
(*   PrimPtr(i)         &primTypes[i]                                      *)
(*   DataPtr(buf)       the first byte of a buffer [head, fill]: the bytes *)
(*                      of head, then fill for every byte after them       *)
(*   BoxPtr(v)          an allocation holding the Go value v               *)
(*   ZeroBase           the address Go gives every zero-sized value        *)
(***************************************************************************)
NIL == [k |-> "nil"]

PrimPtr(i) == [k |-> "prim", i |-> i]

DataPtr(buf) == [k |-> "data", buf |-> buf]

BoxPtr(v) == [k |-> "box", v |-> v]

ZeroBase == [k |-> "zerobase"]

Buf(head, fill) == [head |-> head, fill |-> fill]

boolType == PrimPtr(0)

int64Type == PrimPtr(1)

uint64Type == PrimPtr(2)

float64Type == PrimPtr(3)

custBitsType == PrimPtr(4)

\* the package-level isPrim: nil, or an address within primTypes[0..4].
\* Only the PrimPtr pointers lie in the primTypes array.
isPrim(ptr) ==
    \/ ptr = NIL
    \/ ptr.k = "prim" /\ ptr.i >= boolType.i /\ ptr.i <= custBitsType.i

\* the bytes memory holds at ptr.  Nothing is mapped at nil: a read of a
\* non-empty range there yields no bytes of the program ("!").
BufAt(ptr) == IF ptr.k = "data" THEN ptr.buf ELSE Buf(<<>>, "!")

\* the len bytes at ptr, as a text
Read(ptr, len) ==
    LET b == BufAt(ptr)
    IN  IF IsSmall(len)
        THEN [len |-> len,
              head |-> [i \in 1..len[1] |->
                          IF i <= Len(b.head) THEN b.head[i] ELSE b.fill]]
        ELSE [len |-> len, head |-> <<b.fill>>]

\* a fresh buffer holding a copy of the text
NewBuf(t) == IF Explicit(t) THEN Buf(t.head, "?") ELSE Buf(<<>>, t.head[1])

\* sface and bface: the headers of a Go string and a Go []byte
GoString(ptr, len) == [ptr |-> ptr, len |-> len]

GoBytes(ptr, len, cap) == [ptr |-> ptr, len |-> len, cap |-> cap]

\* the bytes of a string, and of a slice
StrText(s) == Read(s.ptr, s.len)

BytesText(b) == Read(b.ptr, b.len)

\* a string literal or the result of a conversion: freshly held text
StrOf(t) == IF t.len = Zero THEN GoString(NIL, Zero)
            ELSE GoString(DataPtr(NewBuf(t)), t.len)

\* Go's []byte(s): a fresh, non-nil slice holding a copy
BytesOfString(s) ==
    LET t == StrText(s)
    IN  IF t.len = Zero THEN GoBytes(ZeroBase, Zero, Zero)
        ELSE GoBytes(DataPtr(NewBuf(t)), t.len, t.len)

\* Go's string(b)
StringOfBytes(b) == StrOf(BytesText(b))

(***************************************************************************)
(* Interface values (any): a type descriptor address and a data word.      *)
(* The descriptors of the types the model boxes, by type name.             *)
(***************************************************************************)
Iface(typ, data) == [typ |-> typ, data |-> data]

NilIface == Iface(Zero, NIL)

\* the largest descriptor address that fits 56 bits, and the first that
\* does not
TypeAddr ==
    [string        |-> Word4(4096, 16, 0, 0),
     bytes         |-> Word4(4160, 16, 0, 0),
     taggedString  |-> Word4(4224, 16, 0, 0),
     Jello         |-> Word4(4288, 16, 0, 0),
     Pudding       |-> Word4(4352, 16, 0, 0),
     PtrJello      |-> Word4(4416, 16, 0, 0),
     PtrGauge      |-> Word4(4480, 16, 0, 0),
     Label         |-> Word4(4544, 16, 0, 0),
     bool          |-> Word4(4608, 16, 0, 0),
     int64         |-> Word4(4672, 16, 0, 0),
     uint64        |-> Word4(4736, 16, 0, 0),
     float64       |-> Word4(4800, 16, 0, 0),
     Empty         |-> Word4(Limb - 32, Limb - 1, Limb - 1, 255),
     Wide          |-> Word4(0, 0, 0, 256)]

TypeNames == DOMAIN TypeAddr

\* the dynamic type a descriptor address stands for
TypeAt(addr) ==
    IF \E n \in TypeNames : TypeAddr[n] = addr
    THEN CHOOSE n \in TypeNames : TypeAddr[n] = addr
    ELSE "invalid"

\* v.(string), v.([]byte), v.(*taggedString)
IsStringIface(vf) == TypeAt(vf.typ) = "string"

IsBytesIface(vf) == TypeAt(vf.typ) = "bytes"

IsTaggedIface(vf) == TypeAt(vf.typ) = "taggedString"

\* a value type is held through a pointer to a copy; a zero-sized value
\* at ZeroBase; a pointer type is the data word itself
StringIface(s) == Iface(TypeAddr.string, BoxPtr(s))

BytesIface(b) == Iface(TypeAddr.bytes, BoxPtr(b))

\* &taggedString{tag: tag, str: s}
TaggedIface(s, tag) ==
    Iface(TypeAddr.taggedString, BoxPtr([tag |-> tag, str |-> s]))

\* any(x) for a scalar x
BoolIface(b) == Iface(TypeAddr.bool, BoxPtr([b |-> b]))

Int64Iface(x) == Iface(TypeAddr.int64, BoxPtr(x))

Uint64Iface(w) == Iface(TypeAddr.uint64, BoxPtr([u |-> w]))

Float64Iface(f) == Iface(TypeAddr.float64, BoxPtr(f))

\* the types that have the methods Bool, Int64, Uint64 and Float64:
\* Pudding (src/box_test.go), with value receivers, and *Gauge, with
\* pointer receivers that accept a nil receiver
HasConv(vf) == TypeAt(vf.typ) \in {"Pudding", "PtrGauge"}

\* v.Int64()
MethodInt64(vf) ==
    IF TypeAt(vf.typ) = "Pudding"
    THEN I64(FALSE, W(vf.data.v.Neat * vf.data.v.Feet))
    ELSE IF vf.data = NIL THEN I64(TRUE, W(1)) ELSE I64(FALSE, W(vf.data.v.n))

\* v.Uint64()
MethodUint64(vf) ==
    IF TypeAt(vf.typ) = "Pudding" THEN W(vf.data.v.Neat * vf.data.v.Feet)
    ELSE IF vf.data = NIL THEN W(1) ELSE W(vf.data.v.n)

\* v.Float64()
MethodFloat64(vf) == Float64OfInt64(MethodInt64(vf))

\* v.Bool()
MethodBool(vf) ==
    IF TypeAt(vf.typ) = "Pudding" THEN TRUE
    ELSE IF vf.data = NIL THEN TRUE ELSE vf.data.v.n # 0

\* fmt.Sprint(vf), for the types of the model
Sprint(vf) ==
    LET tn == TypeAt(vf.typ)
        d(n) == Digits(W(n))
    IN  IF vf = NilIface THEN StrOf(T(<<"<", "n", "i", "l", ">">>))
        ELSE IF tn = "string" THEN vf.data.v
        ELSE IF tn = "bytes" THEN StringOfBytes(vf.data.v)
        ELSE IF tn = "taggedString" THEN vf.data.v.str
        ELSE IF tn = "Label" THEN vf.data.v
        ELSE IF tn = "Pudding"
             THEN StrOf(T(<<"Y", "u", "m", "{">> \o d(vf.data.v.Neat)
                          \o <<" ">> \o d(vf.data.v.Feet) \o <<"}">>))
        ELSE IF tn = "Jello"
             THEN StrOf(T(<<"{">> \o d(vf.data.v.Neat) \o <<" ">>
                          \o d(vf.data.v.Feet) \o <<"}">>))
        ELSE IF tn = "Wide"
             THEN StrOf(T(<<"{">> \o d(vf.data.v.n) \o <<"}">>))
        ELSE IF tn = "Empty" THEN StrOf(T(<<"{", "}">>))
        ELSE IF tn \in {"PtrJello", "PtrGauge"} /\ vf.data = NIL
             THEN StrOf(T(<<"<", "n", "i", "l", ">">>))
        ELSE IF tn = "PtrJello"
             THEN StrOf(T(<<"&", "{">> \o d(vf.data.v.Neat) \o <<" ">>
                          \o d(vf.data.v.Feet) \o <<"}">>))
        ELSE IF tn = "PtrGauge"
             THEN StrOf(T(<<"&", "{">> \o d(vf.data.v.n) \o <<"}">>))
        ELSE StrOf(T(<<"%", "!">>))

(***************************************************************************)
(* The boxed Value and its constructors.  A constructor yields the Value   *)
(* it returns and the descriptors it handed to psave on the way.           *)
(***************************************************************************)
Value(ext, ptr) == [ext |-> ext, ptr |-> ptr]

maxLen == Word4(Limb - 1, 2^15 - 1, 0, 0)

maxCap == Word4(Limb - 1, 2^7 - 1, 0, 0)

ptrString == 1

ptrBytes == 2

ptrIface == 3

ptrIfacePtr == 4

Made(v, saved) == [val |-> v, saved |-> saved]

Nil == Made(Value(Zero, NIL), <<>>)

\* the byte of a bool
ByteOfBool(t) == IF t THEN 1 ELSE 0

Bool(t) == Made(Value(W(ByteOfBool(t)), boolType), <<>>)

Int64(x) == Made(Value(Uint64OfInt64(x), int64Type), <<>>)

Uint64(x) == Made(Value(x, uint64Type), <<>>)

\* a slip: uint64(f), the float's value, in place of its bit pattern
Float64_ByValue(f) ==
    Made(Value(Uint64OfFloat64(f, I64Zero), float64Type), <<>>)

Float64(f) == Made(Value(Float64bits(f), float64Type), <<>>)

CustomBits(x) == Made(Value(x, custBitsType), <<>>)

\* uint64(1)<<56
TypLimit == Shl(W(1), 56)

\* a slip: the slow path registers its descriptor too
toIface_SaveAlways(v, fp) ==
    IF ~fp /\ Lt(v.typ, TypLimit)
    THEN Made(Value(Or(Shl(v.typ, 8), W(ptrIface)), v.data), <<v.typ>>)
    ELSE Made(Value(W(ptrIfacePtr), BoxPtr(v)), <<v.typ>>)

\* v is the interface value; fp is forceIfacePtrs
toIface(v, fp) ==
    LET typ == v.typ
        ptr == v.data
    IN  IF ~fp /\ Lt(typ, TypLimit)
        THEN Made(Value(Or(Shl(typ, 8), W(ptrIface)), ptr), <<typ>>)
        ELSE Made(Value(W(ptrIfacePtr), BoxPtr(v)), <<>>)

\* fs is forceIfaceStrs, fp is forceIfacePtrs
String(s, fs, fp) ==
    LET slen == s.len
    IN  IF fs \/ Gt(slen, maxLen) THEN toIface(StringIface(s), fp)
        ELSE Made(Value(Or(Shl(slen, 32), W(ptrString)), s.ptr), <<>>)

StringWithTag(s, tag, fs, fp) ==
    LET slen == s.len
    IN  IF fs \/ Gt(slen, maxLen) THEN toIface(TaggedIface(s, tag), fp)
        ELSE Made(Value(Or(Or(Shl(slen, 32), Shl(W(tag), 8)), W(ptrString)),
                        s.ptr), <<>>)

\* a slip: >= in place of >, which turns away the largest sizes that fit
Bytes_OffByOne(b, fs, fp) ==
    LET blen == b.len
        bcap == b.cap
    IN  IF fs \/ ~Lt(blen, maxLen) \/ ~Lt(Sub(bcap, blen), maxCap)
        THEN toIface(BytesIface(b), fp)
        ELSE Made(Value(Or(Or(Shl(blen, 32), Shl(Sub(bcap, blen), 8)),
                           W(ptrBytes)), b.ptr), <<>>)

Bytes(b, fs, fp) ==
    LET blen == b.len
        bcap == b.cap
    IN  IF fs \/ Gt(blen, maxLen) \/ Gt(Sub(bcap, blen), maxCap)
        THEN toIface(BytesIface(b), fp)
        ELSE Made(Value(Or(Or(Shl(blen, 32), Shl(Sub(bcap, blen), 8)),
                           W(ptrBytes)), b.ptr), <<>>)

\* the type switch of Any.  The narrower integer and float types convert
\* to int64, uint64 and float64 without loss before they are boxed, so an
\* input of those types stands for them.
Any(v, fs, fp) ==
    LET tn == TypeAt(v.typ)
    IN  IF v = NilIface THEN Nil
        ELSE IF tn = "string" THEN String(v.data.v, fs, fp)
        ELSE IF tn = "bytes" THEN Bytes(v.data.v, fs, fp)
        ELSE IF tn = "bool" THEN Bool(v.data.v.b)
        ELSE IF tn = "int64" THEN Int64(v.data.v)
        ELSE IF tn = "uint64" THEN Uint64(v.data.v.u)
        ELSE IF tn = "float64" THEN Float64(v.data.v)
        ELSE toIface(v, fp)

(***************************************************************************)
(* Reading a Value back.                                                   *)
(***************************************************************************)
Value_isPrim(v) == isPrim(v.ptr)

assertString(v) == GoString(v.ptr, Shr(v.ext, 32))

\* a slip: the spare capacity counted into the length
assertBytes_LenIsCap(v) ==
    LET blen == Shr(v.ext, 32)
        bcap == And(Shr(v.ext, 8), maxCap)
    IN  GoBytes(v.ptr, Add(blen, bcap), Add(blen, bcap))

assertBytes(v) ==
    LET blen == Shr(v.ext, 32)
        bcap == And(Shr(v.ext, 8), maxCap)
    IN  GoBytes(v.ptr, blen, Add(blen, bcap))

\* *(*any)(v.ptr)
assertIfacePtr(v) == v.ptr.v

assertIface(v) == Iface(Shr(v.ext, 8), v.ptr)

assertNonPrimAny(v) ==
    IF LowByte(v.ext) = ptrIface THEN assertIface(v)
    ELSE IF LowByte(v.ext) = ptrIfacePtr THEN assertIfacePtr(v)
    ELSE IF LowByte(v.ext) = ptrString THEN StringIface(assertString(v))
    ELSE BytesIface(assertBytes(v))

primToString(v) ==
    IF v.ptr = boolType THEN StrOf(FormatBool(v.ext # Zero))
    ELSE IF v.ptr = int64Type THEN StrOf(FormatInt(Int64OfUint64(v.ext)))
    ELSE IF v.ptr = uint64Type THEN StrOf(FormatUint(v.ext))
    ELSE IF v.ptr = float64Type
         THEN StrOf(FormatFloat(Float64frombits(v.ext)))
    ELSE IF v.ptr = custBitsType THEN StrOf(FormatUint(v.ext))
    ELSE StrOf(EmptyText)

primToBytes(v) == BytesOfString(primToString(v))

primToAny(v) ==
    IF v.ptr = boolType THEN BoolIface(v.ext # Zero)
    ELSE IF v.ptr = int64Type THEN Int64Iface(Int64OfUint64(v.ext))
    ELSE IF v.ptr = uint64Type THEN Uint64Iface(v.ext)
    ELSE IF v.ptr = float64Type THEN Float64Iface(Float64frombits(v.ext))
    ELSE IF v.ptr = custBitsType THEN Uint64Iface(v.ext)
    ELSE NilIface

\* the interface value String and Bytes switch on: nil unless the low
\* byte is ptrIface or ptrIfacePtr
IfaceOf(v) ==
    IF LowByte(v.ext) = ptrIface THEN assertIface(v)
    ELSE IF LowByte(v.ext) = ptrIfacePtr THEN assertIfacePtr(v)
    ELSE NilIface

Value_String(v) ==
    IF ~Value_isPrim(v)
    THEN IF LowByte(v.ext) = ptrString THEN assertString(v)
         ELSE IF LowByte(v.ext) = ptrBytes THEN StringOfBytes(assertBytes(v))
         ELSE LET vf == IfaceOf(v)
              IN  IF IsBytesIface(vf) THEN StringOfBytes(vf.data.v)
                  ELSE IF IsStringIface(vf) THEN vf.data.v
                  ELSE Sprint(vf)
    ELSE primToString(v)

Value_Bytes(v) ==
    IF ~Value_isPrim(v)
    THEN IF LowByte(v.ext) = ptrBytes THEN assertBytes(v)
         ELSE IF LowByte(v.ext) = ptrString
              THEN BytesOfString(assertString(v))
         ELSE LET vf == IfaceOf(v)
              IN  IF IsBytesIface(vf) THEN vf.data.v
                  ELSE IF IsStringIface(vf) THEN BytesOfString(vf.data.v)
                  ELSE BytesOfString(Sprint(vf))
    ELSE primToBytes(v)

Value_Any(v) == IF ~Value_isPrim(v) THEN assertNonPrimAny(v) ELSE primToAny(v)

\* *(*bool)(unsafe.Pointer(&v.ext)): the byte at the lowest address of
\* ext, which on a little-endian target is its low byte
BoolAtExt(v) == LowByte(v.ext) # 0

toFloat64(v) ==
    IF v.ptr = NIL THEN FPosZero
    ELSE IF v.ptr = boolType
         THEN (IF v.ext = Zero THEN FPosZero ELSE Float64OfUint64(W(1)))
    ELSE IF v.ptr = int64Type THEN Float64OfInt64(Int64OfUint64(v.ext))
    ELSE IF v.ptr = uint64Type THEN Float64OfUint64(v.ext)
    ELSE IF v.ptr = float64Type THEN Float64frombits(v.ext)
    ELSE IF v.ptr = custBitsType THEN Float64OfUint64(v.ext)
    ELSE LET vf == assertNonPrimAny(v)
             ps == ParseFloat(StrText(vf.data.v))
             pb == ParseFloat(BytesText(vf.data.v))
         IN  IF IsStringIface(vf) THEN (IF ps.ok THEN ps.v ELSE NaN)
             ELSE IF IsBytesIface(vf) THEN (IF pb.ok THEN pb.v ELSE NaN)
             ELSE IF HasConv(vf) THEN MethodFloat64(vf)
             ELSE NaN

Value_Float64(v) ==
    IF v.ptr = float64Type THEN Float64frombits(v.ext) ELSE toFloat64(v)

\* u: what this build yields for a float that has no uint64 value
toUint64(v, u) ==
    IF v.ptr = NIL THEN Zero
    ELSE IF v.ptr = boolType THEN (IF v.ext = Zero THEN Zero ELSE W(1))
    ELSE IF v.ptr = int64Type THEN v.ext
    ELSE IF v.ptr = uint64Type THEN v.ext
    ELSE IF v.ptr = float64Type
         THEN Uint64OfFloat64(Float64frombits(v.ext), u)
    ELSE IF v.ptr = custBitsType THEN v.ext
    ELSE LET vf == assertNonPrimAny(v)
             ps == ParseUint(StrText(vf.data.v))
             pb == ParseUint(BytesText(vf.data.v))
         IN  IF IsStringIface(vf) THEN (IF ps.ok THEN ps.v ELSE Zero)
             ELSE IF IsBytesIface(vf) THEN (IF pb.ok THEN pb.v ELSE Zero)
             ELSE IF HasConv(vf) THEN MethodUint64(vf)
             ELSE Zero

Value_Uint64(v, u) == IF v.ptr = uint64Type THEN v.ext ELSE toUint64(v, u)

\* u: what this build yields for a float that has no int64 value
toInt64(v, u) ==
    IF v.ptr = NIL THEN I64Zero
    ELSE IF v.ptr = boolType
         THEN (IF v.ext = Zero THEN I64Zero ELSE I64(FALSE, W(1)))
    ELSE IF v.ptr = int64Type THEN Int64OfUint64(v.ext)
    ELSE IF v.ptr = uint64Type THEN Int64OfUint64(v.ext)
    ELSE IF v.ptr = float64Type
         THEN Int64OfFloat64(Float64frombits(v.ext), u)
    ELSE IF v.ptr = custBitsType THEN Int64OfUint64(v.ext)
    ELSE LET vf == assertNonPrimAny(v)
             ps == ParseInt(StrText(vf.data.v))
             pb == ParseInt(BytesText(vf.data.v))
         IN  IF IsStringIface(vf) THEN (IF ps.ok THEN ps.v ELSE I64Zero)
             ELSE IF IsBytesIface(vf) THEN (IF pb.ok THEN pb.v ELSE I64Zero)
             ELSE IF HasConv(vf) THEN MethodInt64(vf)
             ELSE I64Zero

Value_Int64(v, u) ==
    IF v.ptr = int64Type THEN Int64OfUint64(v.ext) ELSE toInt64(v, u)

toBool(v) ==
    IF v.ptr = NIL THEN FALSE
    ELSE IF v.ptr = boolType THEN v.ext # Zero
    ELSE IF v.ptr = int64Type THEN v.ext # Zero
    ELSE IF v.ptr = uint64Type THEN v.ext # Zero
    ELSE IF v.ptr = float64Type
         THEN LET x == Float64frombits(v.ext) IN FGtZero(x) \/ FLtZero(x)
    ELSE IF v.ptr = custBitsType THEN v.ext # Zero
    ELSE LET vf == assertNonPrimAny(v)
             ps == ParseBool(StrText(vf.data.v))
             pb == ParseBool(BytesText(vf.data.v))
         IN  IF IsStringIface(vf) THEN (IF ps.ok THEN ps.v ELSE FALSE)
             ELSE IF IsBytesIface(vf) THEN (IF pb.ok THEN pb.v ELSE FALSE)
             ELSE IF HasConv(vf) THEN MethodBool(vf)
             ELSE FALSE

Value_Bool(v) == IF v.ptr = boolType THEN BoolAtExt(v) ELSE toBool(v)

Value_IsString(v) ==
    IF Value_isPrim(v) THEN FALSE
    ELSE IF LowByte(v.ext) = ptrString THEN TRUE
    ELSE IF LowByte(v.ext) = ptrBytes THEN FALSE
    ELSE IsStringIface(assertNonPrimAny(v))

Value_IsBytes(v) ==
    IF Value_isPrim(v) THEN FALSE
    ELSE IF LowByte(v.ext) = ptrBytes THEN TRUE
    ELSE IF LowByte(v.ext) = ptrString THEN FALSE
    ELSE IsBytesIface(assertNonPrimAny(v))

Value_IsNil(v) == v.ptr = NIL

Value_IsCustomBits(v) == v.ptr = custBitsType

Value_IsInt(v) == v.ptr = int64Type

Value_IsUint(v) == v.ptr = uint64Type

Value_IsFloat(v) == v.ptr = float64Type

Value_IsNumber(v) == Value_IsInt(v) \/ Value_IsUint(v) \/ Value_IsFloat(v)

Value_IsBool(v) == v.ptr = boolType

\* uint16(x): the low 16 bits, as a number
Uint16Of(w) == w[1]

Value_Tag(v) ==
    IF Value_isPrim(v) THEN 0
    ELSE IF LowByte(v.ext) = ptrString THEN Uint16Of(Shr(v.ext, 8))
    ELSE IF LowByte(v.ext) = ptrBytes THEN 0
    ELSE LET vf == assertNonPrimAny(v)
         IN  IF IsTaggedIface(vf) THEN vf.data.v.tag ELSE 0

(***************************************************************************)
(* The registry.  ptable is a Go map used as a set: nil until the first    *)
(* insertion makes it.                                                     *)
(***************************************************************************)
NilTable == [made |-> FALSE, keys |-> {}]

\* the net effect of psave(p) run to completion: lock, look p up (a nil
\* map has no keys), make the map if it is nil, insert, unlock
psave(tbl, p) ==
    IF p \in tbl.keys THEN tbl
    ELSE [made |-> TRUE, keys |-> tbl.keys \cup {p}]

(***************************************************************************)
(* Inputs.                                                                 *)
(***************************************************************************)
\* the longest text enumerated character by character
MaxTextLen == 2

Alphabet == {"1", "-", "t"}

ShortTexts ==
    UNION {[1..n -> Alphabet] : n \in 0..MaxTextLen}
    \cup {<<"t", "r", "u", "e">>, <<"-", "9", "9">>, <<"h", "i">>, <<"0">>}

\* 2^31-1, 2^31 and 2^32+1
BigLens == {maxLen, Add(maxLen, W(1)), Word4(1, 0, 1, 0)}

\* 0, 1, 2^23-1 and 2^23
Spares == {Zero, W(1), maxCap, Add(maxCap, W(1))}

Tags == {0, 999, Limb - 1}

\* the zero string (a nil data pointer), the short texts (the empty one
\* among them, at a non-nil address) and the oversized ones
StrInputs ==
    {GoString(NIL, Zero)}
    \cup {GoString(DataPtr(Buf(t, "h")), W(Len(t))) : t \in ShortTexts}
    \cup {GoString(DataPtr(Buf(<<>>, "h")), n) : n \in BigLens}

\* nil, []byte{}, the short texts with spare capacity, the oversized ones
BytesInputs ==
    {GoBytes(NIL, Zero, Zero), GoBytes(ZeroBase, Zero, Zero)}
    \cup {GoBytes(DataPtr(Buf(t, "h")), W(Len(t)), Add(W(Len(t)), sp)) :
            t \in ShortTexts, sp \in Spares}
    \cup {GoBytes(DataPtr(Buf(<<>>, "h")), n, Add(n, sp)) :
            n \in BigLens, sp \in {Zero, maxCap}}

\* bit patterns: 0, 1, 2, 99, 255, 256, 2^63-1, 2^63 (-0.0), 2^64-1,
\* 1.0, -1.0, 99.0, 2.5, math.NaN(), a signalling and a negative NaN,
\* +Inf, -Inf, and the smallest denormal (1, above)
WordPool ==
    {Zero, W(1), W(2), W(99), W(255), W(256), MaxInt64Bits, MinInt64Bits,
     AllOnes, Word4(0, 0, 0, 16368), Word4(0, 0, 0, 49136),
     Word4(0, 0, 49152, 16472), Word4(0, 0, 0, 16388),
     Word4(1, 0, 0, 32760), Word4(1, 0, 0, 32752), Word4(0, 0, 0, 65528),
     Word4(0, 0, 0, 32752), Word4(0, 0, 0, 65520)}

Int64Inputs == {Int64OfUint64(w) : w \in WordPool}

Float64Inputs == {Float64frombits(w) : w \in WordPool}

\* what a build may yield for a float with no integer value
ImplSpecific == {I64Zero, I64(TRUE, MinInt64Bits), I64(FALSE, MaxInt64Bits)}

Struct2(a, b) == BoxPtr([Neat |-> a, Feet |-> b])

\* values outside the primitive, string and []byte kinds: Jello and
\* Pudding of src/box_test.go, *Jello (nil and not), *Gauge (a pointer
\* type with the conversion methods, nil and not), Label (a named string
\* type, no methods), the zero-sized Empty, and Wide, whose descriptor
\* lies at 2^56
UserInputs ==
    {Iface(TypeAddr.Jello, Struct2(1, 2)),
     Iface(TypeAddr.Pudding, Struct2(10, 20)),
     Iface(TypeAddr.Pudding, Struct2(0, 2)),
     Iface(TypeAddr.PtrJello, NIL),
     Iface(TypeAddr.PtrJello, Struct2(1, 2)),
     Iface(TypeAddr.PtrGauge, NIL),
     Iface(TypeAddr.PtrGauge, BoxPtr([n |-> 5])),
     Iface(TypeAddr.PtrGauge, BoxPtr([n |-> 0])),
     Iface(TypeAddr.Label, BoxPtr(GoString(DataPtr(Buf(<<"1">>, "h")), W(1)))),
     Iface(TypeAddr.Label, BoxPtr(GoString(DataPtr(Buf(<<"t">>, "h")), W(1)))),
     Iface(TypeAddr.Empty, ZeroBase),
     Iface(TypeAddr.Wide, BoxPtr([n |-> 1]))}

AnyInputs ==
    {NilIface} \cup UserInputs
    \cup {StringIface(s) : s \in StrInputs}
    \cup {BytesIface(b) : b \in {x \in BytesInputs : x.cap = x.len}}
    \cup {BoolIface(b) : b \in BOOLEAN}
    \cup {Int64Iface(x) : x \in {I64Zero, I64(TRUE, W(1)), I64(FALSE, W(99))}}
    \cup {Uint64Iface(w) : w \in {Zero, W(99), AllOnes}}
    \cup {Float64Iface(Float64frombits(w)) :
            w \in {Zero, Word4(0, 0, 0, 16368), Word4(1, 0, 0, 32760)}}

(***************************************************************************)
(* The state: the two test switches, the registry and its lock, the Value  *)
(* the program holds (val), the constructor call that made it (src), and   *)
(* the last accessor call with its result (res).  A run boxes one value    *)
(* and reads it back: every accessor is a function of the Value alone.     *)
(*                                                                         *)
(* The goroutines of TestPLocks: where each stands in toIface and psave    *)
(* (pc), the Value its pending call will return and the descriptor it      *)
(* hands to psave (pend), the registering calls begun so far (ncalls),     *)
(* and the Values the registering calls have returned (held); val is the   *)
(* Value the last call to return has returned.                             *)
(***************************************************************************)
VARIABLES forceIfaceStrs, forceIfacePtrs, plocker, ptable, val, src, res,
          pc, pend, ncalls, held

vars ==
    <<forceIfaceStrs, forceIfacePtrs, plocker, ptable, val, src, res,
      pc, pend, ncalls, held>>

switches == <<forceIfaceStrs, forceIfacePtrs>>

registry == <<plocker, ptable>>

\* the goroutines
NumThreads == 2

Threads == 1..NumThreads

goroutines == <<pc, pend, ncalls, held>>

\* a call under way: the interface value v it was given, the Value it
\* will return and the descriptor it hands to psave
Pending(v, made) == [v |-> v, val |-> made.val, saved |-> made.saved]

\* no call pending
NoArg == Pending(NilIface, Made(Value(Zero, NIL), <<>>))

NoCall == [op |-> "none"]

Called(op, out) == [op |-> op, out |-> out]

\* var v box.Value: the zero Value, which is Nil()
Init ==
    /\ forceIfaceStrs = FALSE
    /\ forceIfacePtrs = FALSE
    /\ plocker = 0
    /\ ptable = NilTable
    /\ val = Value(Zero, NIL)
    /\ src = [ctor |-> "zero"]
    /\ res = NoCall
    /\ pc = [t \in Threads |-> "idle"]
    /\ pend = [t \in Threads |-> NoArg]
    /\ ncalls = 0
    /\ held = {}

\* the test code's forceIfaceStrs = b.  Only the constructors read the
\* switches, so the test sets them before the run's constructor call.
SetForceIfaceStrs ==
    /\ src.ctor = "zero"
    /\ \E b \in BOOLEAN : forceIfaceStrs' = b
    /\ UNCHANGED <<forceIfacePtrs, registry, val, src, res, goroutines>>

\* the test code's forceIfacePtrs = b
SetForceIfacePtrs ==
    /\ src.ctor = "zero"
    /\ \E b \in BOOLEAN : forceIfacePtrs' = b
    /\ UNCHANGED <<forceIfaceStrs, registry, val, src, res, goroutines>>

\* a constructor call returns: the Value is held, and each descriptor the
\* call handed to psave is in the registry.  plock's compare-and-swap
\* takes the lock only from 0, and punlock stores 0.
Return(ctor, arg, tag, made) ==
    /\ src.ctor = "zero"
    /\ made.saved # <<>> => plocker = 0
    /\ val' = made.val
    /\ src' = [ctor |-> ctor, arg |-> arg, tag |-> tag,
               fs |-> forceIfaceStrs, fp |-> forceIfacePtrs]
    /\ res' = NoCall
    /\ ptable' = IF made.saved = <<>> THEN ptable
                 ELSE psave(ptable, made.saved[1])
    /\ plocker' = IF made.saved = <<>> THEN plocker ELSE 0
    /\ UNCHANGED <<switches, goroutines>>

CallNil == Return("Nil", Zero, 0, Nil)

CallBool == \E t \in BOOLEAN : Return("Bool", t, 0, Bool(t))

CallInt64 == \E x \in Int64Inputs : Return("Int64", x, 0, Int64(x))

CallUint64 == \E x \in WordPool : Return("Uint64", x, 0, Uint64(x))

CallFloat64 == \E f \in Float64Inputs : Return("Float64", f, 0, Float64(f))

CallCustomBits == \E x \in WordPool : Return("CustomBits", x, 0, CustomBits(x))

CallString ==
    \E s \in StrInputs :
        Return("String", s, 0, String(s, forceIfaceStrs, forceIfacePtrs))

CallStringWithTag ==
    \E s \in StrInputs, tag \in Tags :
        Return("StringWithTag", s, tag,
               StringWithTag(s, tag, forceIfaceStrs, forceIfacePtrs))

CallBytes ==
    \E b \in BytesInputs :
        Return("Bytes", b, 0, Bytes(b, forceIfaceStrs, forceIfacePtrs))

CallAny ==
    \E v \in AnyInputs :
        Return("Any", v, 0, Any(v, forceIfaceStrs, forceIfacePtrs))

\* an accessor or predicate call on the held Value
Observe(op, out) ==
    /\ res' = Called(op, out)
    /\ UNCHANGED <<switches, registry, val, src, goroutines>>

GetString == Observe("String", Value_String(val))

GetBytes == Observe("Bytes", Value_Bytes(val))

GetAny == Observe("Any", Value_Any(val))

GetBool == Observe("Bool", Value_Bool(val))

GetInt64 == \E u \in ImplSpecific : Observe("Int64", Value_Int64(val, u))

GetUint64 == \E u \in ImplSpecific : Observe("Uint64", Value_Uint64(val, u))

GetFloat64 == Observe("Float64", Value_Float64(val))

GetIsString == Observe("IsString", Value_IsString(val))

GetIsBytes == Observe("IsBytes", Value_IsBytes(val))

GetIsNil == Observe("IsNil", Value_IsNil(val))

GetIsCustomBits == Observe("IsCustomBits", Value_IsCustomBits(val))

GetIsInt == Observe("IsInt", Value_IsInt(val))

GetIsUint == Observe("IsUint", Value_IsUint(val))

GetIsFloat == Observe("IsFloat", Value_IsFloat(val))

GetIsNumber == Observe("IsNumber", Value_IsNumber(val))

GetIsBool == Observe("IsBool", Value_IsBool(val))

GetTag == Observe("Tag", Value_Tag(val))

Next ==
    \/ SetForceIfaceStrs
    \/ SetForceIfacePtrs
    \/ CallNil
    \/ CallBool
    \/ CallInt64
    \/ CallUint64
    \/ CallFloat64
    \/ CallCustomBits
    \/ CallString
    \/ CallStringWithTag
    \/ CallBytes
    \/ CallAny
    \/ GetString
    \/ GetBytes
    \/ GetAny
    \/ GetBool
    \/ GetInt64
    \/ GetUint64
    \/ GetFloat64
    \/ GetIsString
    \/ GetIsBytes
    \/ GetIsNil
    \/ GetIsCustomBits
    \/ GetIsInt
    \/ GetIsUint
    \/ GetIsFloat
    \/ GetIsNumber
    \/ GetIsBool
    \/ GetTag

Spec == Init /\ [][Next]_vars

(***************************************************************************)
(* The goroutines, step by step.  Each goroutine calls Any; a call that    *)
(* takes toIface's fast path runs psave one statement at a time:           *)
(*                                                                         *)
(*   lock      plock: atomic.CompareAndSwapUint64(&plocker, 0, 1)          *)
(*   yield     plock: runtime.Gosched(), after a failed swap               *)
(*   lookup    _, ok := ptable[p]                                          *)
(*   checknil  if ptable == nil                                            *)
(*   make      ptable = make(map[unsafe.Pointer]struct{})                  *)
(*   insert    ptable[p] = struct{}{}                                      *)
(*   unlock    punlock: atomic.StoreUint64(&plocker, 0)                    *)
(*   ret       toIface: return Value{(typ << 8) | ptrIface, ptr}           *)
(*   panic     the goroutine stopped: assignment to an entry of a nil map  *)
(***************************************************************************)
\* the registering calls the goroutines make, all told
MaxCalls == 2

\* &Jello{1, 2} of TestPLocks, a Pudding, a value whose descriptor lies at
\* 2^56, a string, and the unsigned integer 3
ConcInputs ==
    {Iface(TypeAddr.PtrJello, Struct2(1, 2)),
     Iface(TypeAddr.Pudding, Struct2(10, 20)),
     Iface(TypeAddr.Wide, BoxPtr([n |-> 1])),
     StringIface(GoString(DataPtr(Buf(<<"h", "i">>, "h")), W(2))),
     Uint64Iface(W(3))}

InPsave == {"lock", "yield", "lookup", "checknil", "make", "insert", "unlock"}

Critical == {"lookup", "checknil", "make", "insert", "unlock"}

\* the descriptor goroutine t handed to psave
P(t) == pend[t].saved[1]

Goto(t, label) == pc' = [pc EXCEPT ![t] = label]

\* a slip: a plain store of 1, whatever the lock held
CasOk_Blind(cur) == TRUE

\* whether the compare-and-swap from 0 takes the lock
CasOk(cur) == cur = 0

\* a nil map has no entries
Found(tbl, p) == p \in tbl.keys

\* a slip: return on a descriptor already present, the lock still held
AfterLookup_EarlyReturn(found) == IF found THEN "ret" ELSE "checknil"

\* if _, ok := ptable[p]; !ok { ... }
AfterLookup(found) == IF found THEN "unlock" ELSE "checknil"

\* a slip: the map made anew at every insertion
IsNilMap_Always(tbl) == TRUE

IsNilMap(tbl) == ~tbl.made

EmptyTable == [made |-> TRUE, keys |-> {}]

\* a slip: the insertion left out
Inserted_Nop(tbl, p) == tbl

\* a slip: the descriptor stored as the whole table
Inserted_Alone(tbl, p) == [tbl EXCEPT !.keys = {p}]

Inserted(tbl, p) == [tbl EXCEPT !.keys = tbl.keys \cup {p}]

\* Any(v) reaches toIface's fast path: psave(typ) is called
CallFast(t) ==
    /\ pc[t] = "idle"
    /\ ncalls < MaxCalls
    /\ \E v \in ConcInputs :
         LET made == Any(v, forceIfaceStrs, forceIfacePtrs)
         IN  /\ made.saved # <<>>
             /\ pend' = [pend EXCEPT ![t] = Pending(v, made)]
    /\ ncalls' = ncalls + 1
    /\ Goto(t, "lock")
    /\ UNCHANGED <<switches, registry, val, src, res, held>>

\* Any(v) returns without a call of psave: a primitive, an inline string,
\* the slow path
CallOther(t) ==
    /\ pc[t] = "idle"
    /\ \E v \in ConcInputs :
         LET made == Any(v, forceIfaceStrs, forceIfacePtrs)
         IN  /\ made.saved = <<>>
             /\ val' = made.val
             /\ src' = [ctor |-> "Any", arg |-> v, tag |-> 0,
                        fs |-> forceIfaceStrs, fp |-> forceIfacePtrs]
    /\ res' = NoCall
    /\ UNCHANGED <<switches, registry, goroutines>>

\* v.Any() on the Value the last call returned
ReadAny(t) ==
    /\ pc[t] = "idle"
    /\ res' = Called("Any", Value_Any(val))
    /\ UNCHANGED <<switches, registry, val, src, goroutines>>

Lock(t) ==
    /\ pc[t] = "lock"
    /\ CasOk(plocker)
    /\ plocker' = 1
    /\ Goto(t, "lookup")
    /\ UNCHANGED <<switches, ptable, val, src, res, pend, ncalls, held>>

LockFail(t) ==
    /\ pc[t] = "lock"
    /\ ~CasOk(plocker)
    /\ Goto(t, "yield")
    /\ UNCHANGED <<switches, registry, val, src, res, pend, ncalls, held>>

Gosched(t) ==
    /\ pc[t] = "yield"
    /\ Goto(t, "lock")
    /\ UNCHANGED <<switches, registry, val, src, res, pend, ncalls, held>>

Lookup(t) ==
    /\ pc[t] = "lookup"
    /\ Goto(t, AfterLookup(Found(ptable, P(t))))
    /\ UNCHANGED <<switches, registry, val, src, res, pend, ncalls, held>>

CheckNil(t) ==
    /\ pc[t] = "checknil"
    /\ Goto(t, IF IsNilMap(ptable) THEN "make" ELSE "insert")
    /\ UNCHANGED <<switches, registry, val, src, res, pend, ncalls, held>>

MakeTable(t) ==
    /\ pc[t] = "make"
    /\ ptable' = EmptyTable
    /\ Goto(t, "insert")
    /\ UNCHANGED <<switches, plocker, val, src, res, pend, ncalls, held>>

\* an assignment to an entry of a nil map panics
Insert(t) ==
    /\ pc[t] = "insert"
    /\ IF ptable.made
       THEN ptable' = Inserted(ptable, P(t)) /\ Goto(t, "unlock")
       ELSE UNCHANGED ptable /\ Goto(t, "panic")
    /\ UNCHANGED <<switches, plocker, val, src, res, pend, ncalls, held>>

Unlock(t) ==
    /\ pc[t] = "unlock"
    /\ plocker' = 0
    /\ Goto(t, "ret")
    /\ UNCHANGED <<switches, ptable, val, src, res, pend, ncalls, held>>

Ret(t) ==
    /\ pc[t] = "ret"
    /\ val' = pend[t].val
    /\ src' = [ctor |-> "Any", arg |-> pend[t].v, tag |-> 0,
               fs |-> forceIfaceStrs, fp |-> forceIfacePtrs]
    /\ res' = NoCall
    /\ held' = held \cup {pend[t].val}
    /\ pend' = [pend EXCEPT ![t] = NoArg]
    /\ Goto(t, "idle")
    /\ UNCHANGED <<switches, registry, ncalls>>

\* one statement of psave or of toIface's return, by goroutine t
Registering(t) ==
    \/ Lock(t)
    \/ LockFail(t)
    \/ Gosched(t)
    \/ Lookup(t)
    \/ CheckNil(t)
    \/ MakeTable(t)
    \/ Insert(t)
    \/ Unlock(t)
    \/ Ret(t)

NextC ==
    \E t \in Threads :
        \/ CallFast(t)
        \/ CallOther(t)
        \/ ReadAny(t)
        \/ Lock(t)
        \/ LockFail(t)
        \/ Gosched(t)
        \/ Lookup(t)
        \/ CheckNil(t)
        \/ MakeTable(t)
        \/ Insert(t)
        \/ Unlock(t)
        \/ Ret(t)

SpecC == Init /\ [][NextC]_vars

\* the Go scheduler runs every runnable goroutine again and again
\* (runtime.Gosched yields, and a running goroutine is preempted)
FairSpecC == SpecC /\ \A t \in Threads : WF_vars(Registering(t))

(***************************************************************************)
(* Properties.                                                             *)
(***************************************************************************)
PrimCtors == {"Nil", "Bool", "Int64", "Uint64", "Float64", "CustomBits"}

TextCtors == {"String", "StringWithTag", "Bytes"}

\* the call that made val: the constructor and the switches it read
Built(ctor) == src.ctor = ctor

\* val holds the inline text or bytes encoding of the input
InlineAs(kind) == LowByte(val.ext) = kind /\ val.ptr = src.arg.ptr

\* val holds the input behind an interface value (either escape tag)
Escaped ==
    /\ LowByte(val.ext) \in {ptrIface, ptrIfacePtr}
    /\ val.ptr.k = "box"

\* two interface values of the same dynamic type and contents
SameIface(a, b) == a.typ = b.typ /\ a.data = b.data

\* C1: a primitive boxed with its kind's constructor and read back with the
\* same kind's accessor is the value that was boxed, bit for bit: Int64,
\* Uint64, Bool, CustomBits (read with Uint64), and Float64 compared by its
\* 64-bit pattern, NaN patterns included.
C1_PrimitiveRoundTrip ==
    /\ Built("Int64") /\ res.op = "Int64" => res.out = src.arg
    /\ Built("Uint64") /\ res.op = "Uint64" => res.out = src.arg
    /\ Built("Bool") /\ res.op = "Bool" => res.out = src.arg
    /\ Built("CustomBits") /\ res.op = "Uint64" => res.out = src.arg
    /\ Built("Float64") /\ res.op = "Float64"
          => Float64bits(res.out) = Float64bits(src.arg)

\* a signalling NaN was boxed and read back with its payload intact
C1_Witness ==
    /\ Built("Float64")
    /\ Float64bits(src.arg) = Word4(1, 0, 0, 32752)
    /\ res.op = "Float64"
    /\ Float64bits(res.out) = Word4(1, 0, 0, 32752)

\* C2: String(s).String() has the bytes of s and Bytes(b).Bytes() has the
\* bytes of b, for the empty string, nil and empty slices too, on the
\* inline path and on the escape path (switch set, or over the bounds).
C2_TextRoundTrip ==
    /\ Built("String") /\ res.op = "String"
          => StrText(res.out) = StrText(src.arg)
    /\ Built("Bytes") /\ res.op = "Bytes"
          => BytesText(res.out) = BytesText(src.arg)

\* a slice with spare capacity over the inline bound went through the
\* escape path and came back with its bytes
C2_Witness ==
    /\ Built("Bytes")
    /\ ~src.fs
    /\ Gt(Sub(src.arg.cap, src.arg.len), maxCap)
    /\ src.arg.len = W(2)
    /\ Escaped
    /\ res.op = "Bytes"
    /\ BytesText(res.out) = BytesText(src.arg)

\* what the public accessors and predicates named in C3 return for v
Observed(v) ==
    [String   |-> StrText(Value_String(v)),
     Bytes    |-> BytesText(Value_Bytes(v)),
     Any      |-> <<TypeAt(Value_Any(v).typ), Value_Any(v).data>>,
     Bool     |-> Value_Bool(v),
     Int64    |-> Value_Int64(v, I64Zero),
     Uint64   |-> Value_Uint64(v, I64Zero),
     Float64  |-> Value_Float64(v),
     IsString |-> Value_IsString(v),
     IsBytes  |-> Value_IsBytes(v),
     IsNil    |-> Value_IsNil(v),
     Tag      |-> Value_Tag(v)]

\* C3: the representation is not observable: whatever the switches were,
\* the Value a text or bytes constructor makes from an input answers every
\* accessor and predicate as the Value made from it with the switches at any
\* other setting does.
C3_PathNotObservable ==
    \A fs \in BOOLEAN, fp \in BOOLEAN :
        /\ Built("String")
              => Observed(String(src.arg, fs, fp).val) = Observed(val)
        /\ Built("StringWithTag")
              => Observed(StringWithTag(src.arg, src.tag, fs, fp).val)
                    = Observed(val)
        /\ Built("Bytes")
              => Observed(Bytes(src.arg, fs, fp).val) = Observed(val)

\* the zero string boxed inline is nil to IsNil, and a string to IsString
\* when the switch sends the same input to the escape path
C3_Diverges ==
    /\ Built("String")
    /\ src.arg = GoString(NIL, Zero)
    /\ ~src.fs
    /\ res.op = "IsNil"
    /\ res.out = TRUE
    /\ ~Value_IsNil(String(src.arg, TRUE, src.fp).val)
    /\ Value_IsString(String(src.arg, TRUE, src.fp).val)

\* every kind predicate but the one named is false of v
OnlyKind(v, kind) ==
    /\ Value_IsString(v) = (kind = "string")
    /\ Value_IsBytes(v) = (kind = "bytes")
    /\ Value_IsNil(v) = (kind = "nil")
    /\ ~Value_IsBool(v)
    /\ ~Value_IsInt(v)
    /\ ~Value_IsUint(v)
    /\ ~Value_IsFloat(v)
    /\ ~Value_IsNumber(v)
    /\ ~Value_IsCustomBits(v)

\* C4: the predicates report the kind of the constructor used: a Value of
\* String or StringWithTag is a string and nothing else, a Value of Bytes
\* is bytes and nothing else, with the switches set or not; IsNil holds
\* only of Nil() and Any(nil).
C4_KindOfConstructor ==
    /\ Built("String") \/ Built("StringWithTag") => OnlyKind(val, "string")
    /\ Built("Bytes") => OnlyKind(val, "bytes")
    /\ Value_IsNil(val)
          => \/ Built("zero")
             \/ Built("Nil")
             \/ Built("Any") /\ src.arg = NilIface

\* Bytes(nil) boxed inline: IsBytes answers false, and IsNil true
C4_Diverges ==
    /\ Built("Bytes")
    /\ src.arg = GoBytes(NIL, Zero, Zero)
    /\ ~src.fs
    /\ res.op = "IsBytes"
    /\ res.out = FALSE
    /\ Value_IsNil(val)

\* C5: StringWithTag(s, t).Tag() is t for every s and t, on either path;
\* Tag() is 0 for a Value of any other constructor.
C5_TagFidelity ==
    IF Built("StringWithTag") THEN Value_Tag(val) = src.tag
    ELSE Value_Tag(val) = 0

\* the zero string boxed inline with tag 999: Tag answers 0
C5_Diverges ==
    /\ Built("StringWithTag")
    /\ src.arg = GoString(NIL, Zero)
    /\ src.tag = 999
    /\ ~src.fs
    /\ Shr(Shl(val.ext, 32), 40) = W(999)
    /\ res.op = "Tag"
    /\ res.out = 0

\* the input of Any is outside the primitive, string and []byte kinds
BoxedUser == Built("Any") /\ src.arg \in UserInputs

\* C6: Any(v).Any() is v, dynamic type and contents, for a v that is not
\* nil, a primitive, a string or a []byte (a typed nil pointer and a
\* zero-sized value included), on the fast and on the slow escape path.
C6_AnyRoundTrip == BoxedUser => SameIface(Value_Any(val), src.arg)

\* a nil *Jello boxed on the fast path comes back as the nil interface; on
\* the slow path it comes back as it went in
C6_Diverges ==
    /\ Built("Any")
    /\ src.arg = Iface(TypeAddr.PtrJello, NIL)
    /\ ~src.fp
    /\ res.op = "Any"
    /\ res.out = NilIface
    /\ SameIface(Value_Any(Any(src.arg, src.fs, TRUE).val), src.arg)

\* the text form of an interface value, parsed
TextForm(vf) == StrText(Sprint(vf))

\* C7: on an escaped value a scalar accessor returns the result of the
\* value's method of the same name when it has one; when it has none, the
\* accessor parses the value's text form and returns the parsed number, and
\* the fixed default only when the text does not parse.
C7_EscapedScalar ==
    BoxedUser =>
        LET vf == src.arg
            pi == ParseInt(TextForm(vf))
            pu == ParseUint(TextForm(vf))
            pf == ParseFloat(TextForm(vf))
            pb == ParseBool(TextForm(vf))
        IN  IF HasConv(vf)
            THEN /\ Value_Int64(val, I64Zero) = MethodInt64(vf)
                 /\ Value_Uint64(val, I64Zero) = MethodUint64(vf)
                 /\ Value_Float64(val) = MethodFloat64(vf)
                 /\ Value_Bool(val) = MethodBool(vf)
            ELSE /\ Value_Int64(val, I64Zero)
                       = (IF pi.ok THEN pi.v ELSE I64Zero)
                 /\ Value_Uint64(val, I64Zero) = (IF pu.ok THEN pu.v ELSE Zero)
                 /\ Value_Float64(val) = (IF pf.ok THEN pf.v ELSE NaN)
                 /\ Value_Bool(val) = (IF pb.ok THEN pb.v ELSE FALSE)

\* a nil *Gauge boxed on the fast path: Int64 answers 0 without calling
\* the value's Int64 method, which the slow path calls
C7_Diverges ==
    /\ Built("Any")
    /\ src.arg = Iface(TypeAddr.PtrGauge, NIL)
    /\ ~src.fp
    /\ res.op = "Int64"
    /\ res.out = I64Zero
    /\ MethodInt64(src.arg) # I64Zero
    /\ Value_Int64(Any(src.arg, src.fs, TRUE).val, I64Zero) = MethodInt64(src.arg)

\* the bytes handed to the text or bytes constructor that made val
Payload == IF Built("Bytes") THEN BytesText(src.arg) ELSE StrText(src.arg)

\* C8: a text or bytes payload that parses as the requested kind is
\* returned parsed; one that does not gives 0 from Int64 and Uint64, false
\* from Bool and NaN from Float64.
C8_ParseOrDefault ==
    src.ctor \in TextCtors =>
        LET pi == ParseInt(Payload)
            pu == ParseUint(Payload)
            pf == ParseFloat(Payload)
            pb == ParseBool(Payload)
        IN  /\ Value_Int64(val, I64Zero) = (IF pi.ok THEN pi.v ELSE I64Zero)
            /\ Value_Uint64(val, I64Zero) = (IF pu.ok THEN pu.v ELSE Zero)
            /\ Value_Float64(val) = (IF pf.ok THEN pf.v ELSE NaN)
            /\ Value_Bool(val) = (IF pb.ok THEN pb.v ELSE FALSE)

\* Bytes(nil) boxed inline: the payload does not parse as a float, and
\* Float64 answers 0
C8_Diverges ==
    /\ Built("Bytes")
    /\ src.arg = GoBytes(NIL, Zero, Zero)
    /\ ~src.fs
    /\ ~ParseFloat(Payload).ok
    /\ res.op = "Float64"
    /\ res.out = FPosZero

\* the boxed primitive is Nil, false, an integer zero, a float zero of
\* either sign, or a NaN
Falsy ==
    \/ Built("zero") \/ Built("Nil")
    \/ Built("Bool") /\ src.arg = FALSE
    \/ Built("Int64") /\ src.arg = I64Zero
    \/ (Built("Uint64") \/ Built("CustomBits")) /\ src.arg = Zero
    \/ Built("Float64") /\ (IsZeroF(src.arg) \/ IsNaN(src.arg))

\* C9: Bool() of a primitive Value is false exactly when the value is Nil,
\* Bool(false), an integer, unsigned or custom-bits 0, a float +0.0 or
\* -0.0, or a float NaN, and true of every other primitive payload.
C9_BoolOfPrimitive ==
    (Built("zero") \/ src.ctor \in PrimCtors) /\ res.op = "Bool"
        => res.out = ~Falsy

\* Bool() of a boxed NaN returned false
C9_Witness ==
    /\ Built("Float64")
    /\ IsNaN(src.arg)
    /\ res.op = "Bool"
    /\ res.out = FALSE

\* 2^31 and 2^23, the first length and the first spare capacity that do
\* not fit
TwoTo31 == Shl(W(1), 31)

TwoTo23 == Shl(W(1), 23)

\* C10: with the switches unset Bytes(b) is inline exactly when
\* len(b) <= 2^31-1 and cap(b)-len(b) <= 2^23-1, and String(s) and
\* StringWithTag(s, t) exactly when len(s) <= 2^31-1; otherwise the input
\* goes to the escape path.  The inline word holds the length, the spare
\* capacity and the tag in full.
C10_InlineBounds ==
    /\ Built("Bytes") /\ ~src.fs =>
          LET spare == Sub(src.arg.cap, src.arg.len)
              fits  == Lt(src.arg.len, TwoTo31) /\ Lt(spare, TwoTo23)
          IN  /\ InlineAs(ptrBytes) <=> fits
              /\ Escaped <=> ~fits
              /\ fits => /\ Shr(val.ext, 32) = src.arg.len
                         /\ Shr(Shl(val.ext, 32), 40) = spare
                         /\ assertBytes(val) = src.arg
    /\ (Built("String") \/ Built("StringWithTag")) /\ ~src.fs =>
          LET fits == Lt(src.arg.len, TwoTo31)
          IN  /\ InlineAs(ptrString) <=> fits
              /\ Escaped <=> ~fits
              /\ fits => /\ Shr(val.ext, 32) = src.arg.len
                         /\ Shr(Shl(val.ext, 32), 40) = W(src.tag)
                         /\ assertString(val) = src.arg

\* a slice of length 2^31-1 with spare capacity 2^23-1 was boxed inline
C10_Witness ==
    /\ Built("Bytes")
    /\ ~src.fs
    /\ src.arg.len = maxLen
    /\ Sub(src.arg.cap, src.arg.len) = maxCap
    /\ InlineAs(ptrBytes)
    /\ assertBytes(val) = src.arg

(***************************************************************************)
(* Properties of the registry under concurrent calls.                      *)
(***************************************************************************)
\* v carries a type descriptor in ext: tag ptrIface, and not one of the
\* primitives, whose payload may end in any byte
ErasedInline(v) == LowByte(v.ext) = ptrIface /\ v.ptr.k # "prim"

\* the descriptor v carries
DescOf(v) == Shr(v.ext, 8)

AllIdle == \A t \in Threads : pc[t] = "idle"

\* every descriptor handed to psave so far: by the calls that have
\* returned and by the calls under way
Submitted ==
    {DescOf(v) : v \in held} \cup {P(t) : t \in {u \in Threads : pc[u] # "idle"}}

\* C11: no registration is lost: once every call has returned, ptable
\* holds every descriptor that was submitted, under any interleaving, the
\* descriptors submitted while the table was still nil included.
C11_NoLostRegistration == AllIdle => Submitted \subseteq ptable.keys

\* two goroutines submitted two descriptors, both calls have returned and
\* both descriptors are in the table
C11_Witness ==
    /\ AllIdle
    /\ Cardinality(held) = 2
    /\ Cardinality(Submitted) = 2
    /\ Submitted = ptable.keys

\* C12: at most one goroutine is between plock returning and punlock, it
\* holds plocker = 1 there, and no goroutine writes to ptable while it is
\* nil.
C12_MutualExclusion ==
    /\ Cardinality({t \in Threads : pc[t] \in Critical}) <= 1
    /\ (\E t \in Threads : pc[t] \in Critical) => plocker = 1
    /\ \A t \in Threads : pc[t] = "insert" => ptable.made
    /\ \A t \in Threads : pc[t] # "panic"

\* one goroutine is about to insert while the other has failed the swap
C12_Witness ==
    \E t, u \in Threads :
        /\ pc[t] = "insert"
        /\ pc[u] = "yield"
        /\ plocker = 1
        /\ ptable.made

\* C13: every Value a constructor has returned with a descriptor in ext
\* has that descriptor in ptable.
C13_Rooted ==
    \A v \in held \cup {val} : ErasedInline(v) => DescOf(v) \in ptable.keys

\* a Value with a descriptor in ext is held while another goroutine is
\* inside psave
C13_Witness ==
    /\ \E v \in held : ErasedInline(v) /\ DescOf(v) \in ptable.keys
    /\ \E t \in Threads : pc[t] \in Critical
    /\ LowByte(val.ext) = ptrIface
    /\ val.ptr = uint64Type

\* C14: the registry only grows; a step changes it only by the insertion
\* of the descriptor of the goroutine that takes the step; a descriptor
\* already present is found and the table left as it is; and when psave
\* unlocks its descriptor is in the table.
C14_GrowsByP ==
    /\ [][/\ ptable.keys \subseteq ptable'.keys
          /\ ptable' # ptable =>
                \E t \in Threads :
                    /\ pc[t] \in Critical
                    /\ pc'[t] # pc[t]
                    /\ ptable'.keys \in {ptable.keys, ptable.keys \cup {P(t)}}
          /\ \A t \in Threads :
                pc[t] = "lookup" /\ pc'[t] # pc[t] /\ P(t) \in ptable.keys
                    => ptable' = ptable /\ pc'[t] = "unlock"]_vars
    /\ [](\A t \in Threads : pc[t] \in {"unlock", "ret"} => P(t) \in ptable.keys)

\* a goroutine found its descriptor present, put there by a call that
\* has returned, and is about to unlock
C14_Witness ==
    \E t \in Threads :
        /\ pc[t] = "unlock"
        /\ pend[t].val \in held
        /\ ptable.keys = {P(t)}

\* C15: only the fast escape path touches the registry: a goroutine is
\* inside psave only for a Value with a descriptor in ext; the step that
\* returns a Value and the step of an accessor leave ptable and plocker
\* as they are; and only a goroutine inside psave changes them.
C15_OnlyFastPath ==
    /\ [](\A t \in Threads : pc[t] \in InPsave => ErasedInline(pend[t].val))
    /\ [][/\ (val' # val \/ res' # res) => UNCHANGED <<plocker, ptable>>
          /\ <<plocker, ptable>>' # <<plocker, ptable>> =>
                 \E t \in Threads : pc[t] \in InPsave /\ pc'[t] # pc[t]]_vars

\* the slow path has returned a Value (tag 4) and Any has read it back,
\* with the table still nil and the lock free
C15_Witness ==
    /\ LowByte(val.ext) = ptrIfacePtr
    /\ res = Called("Any", src.arg)
    /\ ptable = NilTable
    /\ plocker = 0

\* C16: with every goroutine scheduled fairly and finitely many calls,
\* every psave call acquires the lock (a goroutine waiting for it gets
\* past plock) and returns, so that in the end every call has returned for
\* good; and whenever all calls have returned the lock is free.
C16_Terminates ==
    /\ \A t \in Threads : (pc[t] \in {"lock", "yield"}) ~> (pc[t] = "lookup")
    /\ <>[]AllIdle
    /\ [](AllIdle => plocker = 0)

\* the goroutines have made all their calls and returned from them, and
\* the lock is free
C16_Witness ==
    /\ AllIdle
    /\ ncalls = MaxCalls
    /\ plocker = 0

====
